---------------------------- MODULE Spec2Model ----------------------------
(***************************************************************************)
(* Model of tools/federal_register_api.py: the Federal Register client     *)
(* that searches the API, filters the results by PDF link and keyword,     *)
(* extracts PDF text with bounded retry and writes one text file per       *)
(* document.                                                               *)
(*                                                                         *)
(* Python strings whose characters matter (titles, abstracts, dates, file  *)
(* names) are sequences of one-character strings.  Opaque strings (URLs,   *)
(* document numbers, search terms) are TLA+ strings.  A key that is absent *)
(* from a document (or JSON null) is a field absent from the record.       *)
(***************************************************************************)
EXTENDS Integers, Sequences, FiniteSets, TLC

VARIABLES
    \* ---- main(), run(), run_comprehensive_search() ----
    pc,               \* position of the process
    comprehensive,    \* args.comprehensive
    max_docs,         \* self.max_docs (args.max_docs)
    term_idx,         \* index of the next search term of the comprehensive run
    request,          \* the last query sent by search_documents
    api_results,      \* run: the "results" array of the API's response
    documents,        \* run: the value search_documents returned
    all_documents,    \* the insertion-ordered dict of run_comprehensive_search
    unique_documents, \* list(all_documents.values())
    i,                \* enumerate index of the processing loop (1-based)
    success_count,
    success,          \* value returned by run / run_comprehensive_search
    exit_code,        \* argument of sys.exit; -1 while the process runs
    files,            \* the output directory: file name -> content
    slept,            \* seconds slept by the last step of the run
    \* ---- download_pdf ----
    dl_pc,            \* "idle", "entry", "loop", "done"
    pdf_url,
    max_retries,
    attempt,          \* number of attempts started so far
    dl_result,        \* returned text; None (<<>>) when nothing is returned
    dl_slept,         \* seconds slept inside the current call
    dl_log,           \* what every attempt of the current call met:
                      \* "error", "no_text" or "text"
    \* ---- history of the run ----
    log,              \* the calls of download_pdf and save_document made by
                      \* the processing loop, in order; a save_document entry
                      \* tells whether it was given text and what it returned
    returned,         \* the documents search_documents has returned in this run
    first_seen,       \* for every document number returned, the first record
                      \* returned with it (earliest search, then position)
    \* ---- file name derivation on its own ----
    nm_pc,
    nm_doc,
    filename

main_vars == <<pc, comprehensive, max_docs, term_idx, request, api_results,
               documents, all_documents, unique_documents, i, success_count,
               success, exit_code, files, slept, log, returned, first_seen>>
dl_vars   == <<dl_pc, pdf_url, max_retries, attempt, dl_result, dl_slept, dl_log>>
nm_vars   == <<nm_pc, nm_doc, filename>>
vars      == <<main_vars, dl_vars, nm_vars>>

----------------------------------------------------------------------------
(* Characters and Python string operations                                 *)

UpperCase == <<"A","B","C","D","E","F","G","H","I","J","K","L","M",
               "N","O","P","Q","R","S","T","U","V","W","X","Y","Z">>
LowerCase == <<"a","b","c","d","e","f","g","h","i","j","k","l","m",
               "n","o","p","q","r","s","t","u","v","w","x","y","z">>
DigitChars == {"0","1","2","3","4","5","6","7","8","9"}

\* \w of the re module (ASCII part): letters, digits and the underscore.
WordChars == {UpperCase[k] : k \in 1..26} \cup {LowerCase[k] : k \in 1..26}
               \cup DigitChars \cup {"_"}
\* \s of the re module (the members the model uses).
SpaceChars == {" ", "\t", "\n"}

Min(a, b) == IF a < b THEN a ELSE b
Max(a, b) == IF a > b THEN a ELSE b

\* str.lower() on one character
LowerChar(c) ==
    IF \E k \in 1..26 : UpperCase[k] = c
    THEN LowerCase[CHOOSE k \in 1..26 : UpperCase[k] = c]
    ELSE c

\* str.lower()
lower(s) == [k \in 1..Len(s) |-> LowerChar(s[k])]

\* keyword in content
Contains(content, keyword) ==
    \E k \in 0..(Len(content) - Len(keyword)) :
        SubSeq(content, k + 1, k + Len(keyword)) = keyword

\* s[:n] of a Python sequence, negative n included
Slice(s, n) ==
    IF n >= 0 THEN SubSeq(s, 1, Min(n, Len(s)))
              ELSE SubSeq(s, 1, Max(Len(s) + n, 0))

\* None, and the falsy empty text, of download_pdf's result
None == <<>>

\* truthiness of an optional opaque string field: absent, None and '' are falsy
Truthy(doc, key) == key \in DOMAIN doc /\ doc[key] # ""

----------------------------------------------------------------------------
(* search_documents: the keyword filter                                    *)

ai_keywords == <<
     <<"a","r","t","i","f","i","c","i","a","l"," ","i","n","t","e","l","l","i","g","e","n","c","e">>,
     <<"m","a","c","h","i","n","e"," ","l","e","a","r","n","i","n","g">>,
     <<"n","e","u","r","a","l"," ","n","e","t","w","o","r","k">>,
     <<"d","e","e","p"," ","l","e","a","r","n","i","n","g">>,
     <<"a","i"," ","s","a","f","e","t","y">>,
     <<"a","i"," ","g","o","v","e","r","n","a","n","c","e">>,
     <<"a","l","g","o","r","i","t","h","m","i","c">>,
     <<"a","u","t","o","m","a","t","e","d"," ","d","e","c","i","s","i","o","n">>,
     <<"a","i"," ","s","y","s","t","e","m">>,
     <<"a","i"," ","m","o","d","e","l">>,
     <<"a","i"," ","t","e","c","h","n","o","l","o","g","y">> >>

\* (doc.get(key) or '')
GetOrEmpty(doc, key) == IF key \in DOMAIN doc THEN doc[key] ELSE <<>>

\* content = f"{title} {abstract}" of the lowercased title and abstract
FilterContent(doc) ==
    lower(GetOrEmpty(doc, "title")) \o <<" ">> \o lower(GetOrEmpty(doc, "abstract"))

\* any(keyword in content for keyword in ai_keywords)
MatchesKeyword(doc) ==
    \E k \in 1..Len(ai_keywords) : Contains(FilterContent(doc), ai_keywords[k])

\* Faulty variant: the keyword test is dropped from the filter.
PassesFilter_pdf_only(doc) == Truthy(doc, "pdf_url")

\* the loop body's test: the document is appended to pdf_results
PassesFilter(doc) == Truthy(doc, "pdf_url") /\ MatchesKeyword(doc)

----------------------------------------------------------------------------
(* save_document: the file name                                            *)

TitleCap == 50

Untitled == <<"U","n","t","i","t","l","e","d"," ","D","o","c","u","m","e","n","t">>
UnknownDate == <<"u","n","k","n","o","w","n">>
TxtSuffix == <<".","t","x","t">>

\* re.sub(r'[^\w\s-]', '', title)
StripUnsafe(title) ==
    SelectSeq(title, LAMBDA c : c \in WordChars \cup SpaceChars \cup {"-"})

\* re.sub(r'[-\s]+', '-', s): every maximal run of hyphens/whitespace becomes one hyphen
CollapseRuns(s) ==
    LET sep(c) == c \in SpaceChars \cup {"-"}
        marked == [k \in 1..Len(s) |->
                     IF sep(s[k])
                     THEN IF k > 1 /\ sep(s[k - 1]) THEN "" ELSE "-"
                     ELSE s[k]]
    IN  SelectSeq(marked, LAMBDA c : c # "")

\* Faulty variant: the safe title is cut before the runs are collapsed.
SafeTitle_cut_first(title) == CollapseRuns(Slice(StripUnsafe(title), TitleCap - 1)) \o <<"-">>

\* safe_title
SafeTitle(title) == Slice(CollapseRuns(StripUnsafe(title)), TitleCap)

DocTitle(doc) == IF "title" \in DOMAIN doc THEN doc.title ELSE Untitled
DocDate(doc)  == IF "publication_date" \in DOMAIN doc THEN doc.publication_date
                 ELSE UnknownDate

\* filename = f"{date}-{safe_title}.txt"
Filename(doc) == DocDate(doc) \o <<"-">> \o SafeTitle(DocTitle(doc)) \o TxtSuffix

----------------------------------------------------------------------------
(* The documents the API can return                                        *)

T_AiSystem == <<"A","I"," ","s","y","s","t","e","m">>
T_AiSystemBang == <<"A","I"," ","s","y","s","t","e","m","!">>
T_Tax == <<"T","a","x"," ","r","u","l","e",":"," ","2","0","2","4">>
A_Neural == <<"U","s","e","s"," ","a"," ","N","e","u","r","a","l"," ","N","e","t","w","o","r","k",".">>
\* Two titles of more than 50 characters whose safe titles agree in the first 50.
T_LongA == <<"M","a","c","h","i","n","e"," ","l","e","a","r","n","i","n","g"," ","-"," ","g","u","i","d","a","n","c","e"," ","f","o","r"," ","f","e","d","e","r","a","l"," ","a","g","e","n","c","y"," ","p","r","o","c","u","r","e","m","e","n","t"," ","(","p","a","r","t"," ","A",")">>
T_LongB == <<"M","a","c","h","i","n","e"," ","l","e","a","r","n","i","n","g"," ","g","u","i","d","a","n","c","e"," ","f","o","r"," ","f","e","d","e","r","a","l"," ","a","g","e","n","c","y"," ","p","r","o","c","u","r","e","m","e","n","t",","," ","p","a","r","t"," ","B">>
Day == <<"2","0","2","4","-","0","1","-","0","2">>

PdfUrl == "https://www.govinfo.gov/doc.pdf"

\* Records of the response's "results" array.  The state holds a record's
\* index in Pool.
Pool == <<
    \* 1, 2: the same document number on two different records
    [title |-> T_AiSystem, pdf_url |-> PdfUrl, document_number |-> "2024-00001",
     publication_date |-> Day],
    [title |-> T_AiSystemBang, pdf_url |-> PdfUrl, document_number |-> "2024-00001",
     publication_date |-> Day],
    \* 3, 4: different documents of one day with colliding file names
    [title |-> T_LongA, pdf_url |-> PdfUrl, document_number |-> "2024-00002",
     publication_date |-> Day],
    [title |-> T_LongB, pdf_url |-> PdfUrl, document_number |-> "2024-00003",
     publication_date |-> Day],
    \* 5: AI-related by its abstract only, and without a document number
    [title |-> T_Tax, abstract |-> A_Neural, pdf_url |-> PdfUrl,
     document_number |-> "", publication_date |-> Day],
    \* 6: AI-related, without a PDF
    [title |-> T_AiSystem, pdf_url |-> "", document_number |-> "2024-00006",
     publication_date |-> Day],
    \* 7: has a PDF, not AI-related
    [title |-> T_Tax, pdf_url |-> PdfUrl, document_number |-> "2024-00007",
     publication_date |-> Day] >>

DocIds == 1..Len(Pool)

MaxResults == 2   \* longest "results" array of a response

\* api_request's return value: None (ok = FALSE) or the parsed JSON
Responses ==
    {[ok |-> FALSE, results |-> <<>>]}
      \cup {[ok |-> TRUE, results |-> r] :
              r \in UNION {[1..n -> DocIds] : n \in 0..MaxResults}}

----------------------------------------------------------------------------
(* download_pdf                                                            *)

MaxPages == 1          \* pages of a fetched PDF
MaxRetriesBound == 7   \* largest max_retries the stand-alone calls draw
DefaultMaxRetries == 3 \* def download_pdf(self, pdf_url, max_retries=3)
RetryDelay == 2        \* time.sleep(2)

\* What one attempt meets: the fetch or the parse raises ("error"), or the PDF
\* parses into pages, pages[n] telling whether page n yields text.
PageSeqs == UNION {[1..n -> BOOLEAN] : n \in 0..MaxPages}
Outcomes == {[kind |-> "error", pages |-> <<>>]}
              \cup {[kind |-> "parsed", pages |-> p] : p \in PageSeqs}

\* text_content, as the numbers of the pages whose "--- Page N ---" block it holds
text_content(pages) ==
    LET numbered == [n \in 1..Len(pages) |-> n]
    IN  SelectSeq(numbered, LAMBDA n : pages[n])

dl_idle == /\ dl_pc = "idle" /\ pdf_url = "" /\ max_retries = 0 /\ attempt = 0
           /\ dl_result = None /\ dl_slept = 0 /\ dl_log = <<>>

\* the call: lines 57-60
download_pdf_entry ==
    /\ dl_pc = "entry"
    /\ IF pdf_url = ""
       THEN /\ dl_pc' = "done"
            /\ dl_result' = None
       ELSE /\ dl_pc' = "loop"
            /\ UNCHANGED dl_result
    /\ UNCHANGED <<pdf_url, max_retries, attempt, dl_slept, dl_log>>
    /\ UNCHANGED <<main_vars, nm_vars>>

\* Faulty variant: a parsed PDF without text is retried like a failure.
download_pdf_attempt_retry_no_text ==
    /\ dl_pc = "loop"
    /\ attempt < max_retries
    /\ \E o \in Outcomes :
         /\ attempt' = attempt + 1
         /\ dl_log' = Append(dl_log, IF o.kind = "error" THEN "error"
                                     ELSE IF text_content(o.pages) = <<>>
                                          THEN "no_text" ELSE "text")
         /\ IF o.kind = "error" \/ text_content(o.pages) = <<>>
            THEN /\ dl_slept' = IF attempt < max_retries - 1
                                THEN dl_slept + RetryDelay ELSE dl_slept
                 /\ UNCHANGED <<dl_pc, dl_result>>
            ELSE /\ dl_pc' = "done"
                 /\ dl_result' = text_content(o.pages)
                 /\ UNCHANGED dl_slept
    /\ UNCHANGED <<pdf_url, max_retries>>
    /\ UNCHANGED <<main_vars, nm_vars>>

\* one iteration of "for attempt in range(max_retries)": lines 62-93
download_pdf_attempt ==
    /\ dl_pc = "loop"
    /\ attempt < max_retries
    /\ \E o \in Outcomes :
         /\ attempt' = attempt + 1
         /\ dl_log' = Append(dl_log, IF o.kind = "error" THEN "error"
                                     ELSE IF text_content(o.pages) = <<>>
                                          THEN "no_text" ELSE "text")
         /\ IF o.kind = "error"
            THEN \* except: sleep unless this was the last attempt, then loop
                 /\ dl_slept' = IF attempt < max_retries - 1
                                THEN dl_slept + RetryDelay ELSE dl_slept
                 /\ UNCHANGED <<dl_pc, dl_result>>
            ELSE \* parsed: return full_text, or None when no page gave text
                 /\ dl_pc' = "done"
                 /\ dl_result' = text_content(o.pages)
                 /\ UNCHANGED dl_slept
    /\ UNCHANGED <<pdf_url, max_retries>>
    /\ UNCHANGED <<main_vars, nm_vars>>

\* Faulty variant: the loop gives up one attempt early.
download_pdf_exhausted_early ==
    /\ dl_pc = "loop"
    /\ attempt >= max_retries - 1
    /\ dl_pc' = "done"
    /\ dl_result' = None
    /\ UNCHANGED <<pdf_url, max_retries, attempt, dl_slept, dl_log>>
    /\ UNCHANGED <<main_vars, nm_vars>>

\* the loop is exhausted: line 95
download_pdf_exhausted ==
    /\ dl_pc = "loop"
    /\ attempt >= max_retries
    /\ dl_pc' = "done"
    /\ dl_result' = None
    /\ UNCHANGED <<pdf_url, max_retries, attempt, dl_slept, dl_log>>
    /\ UNCHANGED <<main_vars, nm_vars>>

----------------------------------------------------------------------------
(* Idle values of the parts a specification does not exercise              *)

main_idle ==
    /\ pc = "off" /\ comprehensive = FALSE /\ max_docs = 0 /\ term_idx = 0
    /\ request = <<>> /\ api_results = <<>> /\ documents = <<>>
    /\ all_documents = <<>> /\ unique_documents = <<>> /\ i = 0
    /\ success_count = 0 /\ success = FALSE /\ exit_code = -1
    /\ files = <<>> /\ slept = 0
    /\ log = <<>> /\ returned = {} /\ first_seen = {}

nm_idle == nm_pc = "off" /\ nm_doc = <<>> /\ filename = <<>>

----------------------------------------------------------------------------
(* search_documents                                                        *)

ApiPageLimit == 100   \* 'per_page': min(self.max_docs, 100)

\* the filter of every record of Pool
passes == [d \in DocIds |-> PassesFilter(Pool[d])]

\* the value search_documents returns for a response of the API
search_documents(response) ==
    IF ~response.ok \/ response.results = <<>>
    THEN <<>>
    ELSE LET pdf_results == SelectSeq(response.results, LAMBDA d : passes[d])
         IN  Slice(pdf_results, max_docs)

\* the query parameters that vary
Params(term) == [term |-> term, per_page |-> Min(max_docs, ApiPageLimit)]

\* doc.get('document_number'); '' when the key is absent
DocNumber(d) == IF "document_number" \in DOMAIN Pool[d]
                THEN Pool[d].document_number ELSE ""

Range(seq) == {seq[k] : k \in 1..Len(seq)}

\* history: first_seen after one more search has returned docs
NoteFirstSeen(seen, docs) ==
    LET ids == {DocNumber(d) : d \in Range(docs)}
        first(id) == docs[CHOOSE k \in 1..Len(docs) :
                            /\ DocNumber(docs[k]) = id
                            /\ \A j \in 1..(k - 1) : DocNumber(docs[j]) # id]
    IN  seen \cup {[key |-> id, value |-> first(id)] :
                      id \in ids \ {e.key : e \in seen}}

----------------------------------------------------------------------------
(* save_document                                                           *)

\* the file name of every record of Pool
filename_of == [d \in DocIds |-> Filename(Pool[d])]

\* What open(filepath, 'w') and f.write meet: both work, open raises (the
\* directory entry is untouched), or f.write raises after open has created or
\* truncated the file.
WriteOutcomes == {"ok", "open_fails", "write_fails"}

\* Faulty variant: an existing file is not overwritten.
save_document_files_keep_first(doc, pdf_content, w) ==
    CASE w = "ok" ->
           files @@
             (filename_of[doc] :> [doc |-> doc, text |-> pdf_content, complete |-> TRUE])
      [] w = "write_fails" ->
           (filename_of[doc] :> [doc |-> doc, text |-> None, complete |-> FALSE])
             @@ files
      [] OTHER -> files

\* the output directory after save_document(doc, pdf_content)
save_document_files(doc, pdf_content, w) ==
    CASE w = "ok" ->
           (filename_of[doc] :> [doc |-> doc, text |-> pdf_content, complete |-> TRUE])
             @@ files
      [] w = "write_fails" ->
           (filename_of[doc] :> [doc |-> doc, text |-> None, complete |-> FALSE])
             @@ files
      [] OTHER -> files

\* the value save_document returns
save_document(doc, pdf_content, w) == w = "ok"

----------------------------------------------------------------------------
(* main, run and run_comprehensive_search                                  *)

search_terms == <<"artificial intelligence", "machine learning", "AI safety",
                  "AI governance", "algorithmic accountability",
                  "automated decision making", "neural networks", "deep learning">>

DefaultTerm == "artificial intelligence"
TermDelay == 1   \* time.sleep(1) between searches
DocDelay == 2    \* time.sleep(2) between documents

MaxDocsBound == 2   \* largest --max-docs of the model
NegDocsBound == 1   \* the most negative --max-docs of the model is -NegDocsBound
MaxDocsValues == (0 - NegDocsBound)..MaxDocsBound

\* the list the processing loop enumerates
Work == IF comprehensive THEN unique_documents ELSE documents

\* the state after FederalRegisterAPI(...) is constructed in main
Init ==
    /\ pc = "main"
    /\ comprehensive \in BOOLEAN
    /\ max_docs \in MaxDocsValues
    /\ term_idx = 0 /\ request = <<>> /\ api_results = <<>> /\ documents = <<>>
    /\ all_documents = <<>> /\ unique_documents = <<>> /\ i = 0
    /\ success_count = 0 /\ success = FALSE /\ exit_code = -1
    /\ files = <<>> /\ slept = 0
    /\ log = <<>> /\ returned = {} /\ first_seen = {}
    /\ dl_idle /\ nm_idle

\* main: lines 355-360
main_call ==
    /\ pc = "main"
    /\ IF comprehensive
       THEN pc' = "comp_terms" /\ term_idx' = 1
       ELSE pc' = "run" /\ UNCHANGED term_idx
    /\ UNCHANGED <<comprehensive, max_docs, request, api_results, documents, all_documents,
                   unique_documents, i, success_count, success, exit_code,
                   files, slept, log, returned, first_seen>>
    /\ UNCHANGED <<dl_vars, nm_vars>>

\* run: lines 294-303
run_search ==
    /\ pc = "run"
    /\ \E response \in Responses :
         /\ api_results' = response.results
         /\ documents' = search_documents(response)
         /\ request' = Params(DefaultTerm)
         /\ returned' = returned \cup Range(documents')
         /\ first_seen' = NoteFirstSeen(first_seen, documents')
         /\ IF documents' = <<>>
            THEN /\ success' = FALSE
                 /\ pc' = "exit"
                 /\ UNCHANGED <<i, success_count>>
            ELSE /\ pc' = "loop"
                 /\ i' = 1
                 /\ success_count' = 0
                 /\ UNCHANGED success
    /\ slept' = 0
    /\ UNCHANGED <<comprehensive, max_docs, term_idx, all_documents,
                   unique_documents, exit_code, files, log>>
    /\ UNCHANGED <<dl_vars, nm_vars>>

\* Faulty variant: a document number already present is overwritten (last write wins).
RECURSIVE Merge_overwrite(_, _)
Merge_overwrite(all, docs) ==
    IF docs = <<>> THEN all
    ELSE LET doc == Head(docs)
             doc_id == DocNumber(doc)
         IN  Merge_overwrite(
                 IF doc_id = "" THEN all
                 ELSE IF \E k \in 1..Len(all) : all[k].key = doc_id
                      THEN [k \in 1..Len(all) |->
                              IF all[k].key = doc_id
                              THEN [key |-> doc_id, value |-> doc] ELSE all[k]]
                      ELSE Append(all, [key |-> doc_id, value |-> doc]),
                 Tail(docs))

\* Faulty variant: a document without a document number is kept too.
RECURSIVE Merge_keep_unnumbered(_, _)
Merge_keep_unnumbered(all, docs) ==
    IF docs = <<>> THEN all
    ELSE LET doc == Head(docs)
             doc_id == DocNumber(doc)
         IN  Merge_keep_unnumbered(
                 IF ~ \E k \in 1..Len(all) : all[k].key = doc_id
                 THEN Append(all, [key |-> doc_id, value |-> doc])
                 ELSE all,
                 Tail(docs))

\* the inner loop of lines 231-234 over the documents of one term
RECURSIVE Merge(_, _)
Merge(all, docs) ==
    IF docs = <<>> THEN all
    ELSE LET doc == Head(docs)
             doc_id == DocNumber(doc)
         IN  Merge(IF doc_id # "" /\ ~ \E k \in 1..Len(all) : all[k].key = doc_id
                   THEN Append(all, [key |-> doc_id, value |-> doc])
                   ELSE all,
                   Tail(docs))

\* run_comprehensive_search: one iteration of "for term in search_terms", lines 227-238
comp_search_term ==
    /\ pc = "comp_terms"
    /\ term_idx <= Len(search_terms)
    /\ \E response \in Responses :
         LET found == search_documents(response)   \* the term's documents
         IN  /\ request' = Params(search_terms[term_idx])
             /\ returned' = returned \cup Range(found)
             /\ first_seen' = NoteFirstSeen(first_seen, found)
             /\ all_documents' = Merge(all_documents, found)
    /\ term_idx' = term_idx + 1
    /\ slept' = TermDelay
    /\ UNCHANGED <<pc, comprehensive, max_docs, api_results, documents,
                   unique_documents, i, success_count, success, exit_code,
                   files, log>>
    /\ UNCHANGED <<dl_vars, nm_vars>>

\* run_comprehensive_search: lines 240-250
comp_collect ==
    /\ pc = "comp_terms"
    /\ term_idx > Len(search_terms)
    /\ unique_documents' = [k \in 1..Len(all_documents) |-> all_documents[k].value]
    /\ IF unique_documents' = <<>>
       THEN /\ success' = FALSE
            /\ pc' = "exit"
            /\ UNCHANGED <<i, success_count>>
       ELSE /\ pc' = "loop"
            /\ i' = 1
            /\ success_count' = 0
            /\ UNCHANGED success
    /\ slept' = 0
    /\ UNCHANGED <<comprehensive, max_docs, term_idx, request, api_results, documents,
                   all_documents, exit_code, files, log, returned, first_seen>>
    /\ UNCHANGED <<dl_vars, nm_vars>>

\* Faulty variant: a failed write ends the processing loop.
SaveAndAdvance_abort(doc, pdf_content, calls) ==
    \E w \in WriteOutcomes :
         /\ files' = save_document_files(doc, pdf_content, w)
         /\ success_count' = IF save_document(doc, pdf_content, w)
                             THEN success_count + 1 ELSE success_count
         /\ log' = Append(calls, [op |-> "save_document", doc |-> doc,
                                  content |-> IF pdf_content = None
                                              THEN "none" ELSE "text",
                                  ret |-> IF save_document(doc, pdf_content, w)
                                          THEN "True" ELSE "False"])
         /\ slept' = IF i < Len(Work) THEN DocDelay ELSE 0
         /\ i' = IF save_document(doc, pdf_content, w) THEN i + 1 ELSE Len(Work) + 1
         /\ pc' = "loop"

\* lines 322-329 (269-276): save the document, count it, sleep, next document
SaveAndAdvance(doc, pdf_content, calls) ==
    \E w \in WriteOutcomes :
         /\ files' = save_document_files(doc, pdf_content, w)
         /\ success_count' = IF save_document(doc, pdf_content, w)
                             THEN success_count + 1 ELSE success_count
         /\ log' = Append(calls, [op |-> "save_document", doc |-> doc,
                                  content |-> IF pdf_content = None
                                              THEN "none" ELSE "text",
                                  ret |-> IF save_document(doc, pdf_content, w)
                                          THEN "True" ELSE "False"])
         /\ slept' = IF i < Len(Work) THEN DocDelay ELSE 0
         /\ i' = i + 1
         /\ pc' = "loop"

\* lines 305-320 (252-267): the loop body up to the call of download_pdf
process_begin ==
    /\ pc = "loop"
    /\ i <= Len(Work)
    /\ LET doc == Work[i]
       IN  IF Truthy(Pool[doc], "pdf_url")
           THEN /\ pc' = "download"
                /\ log' = Append(log, [op |-> "download_pdf", doc |-> doc,
                                       content |-> "-", ret |-> "called"])
                /\ dl_pc' = "entry"
                /\ pdf_url' = Pool[doc].pdf_url
                /\ max_retries' = DefaultMaxRetries
                /\ attempt' = 0 /\ dl_result' = None /\ dl_slept' = 0
                /\ dl_log' = <<>>
                /\ slept' = 0
                /\ UNCHANGED <<i, success_count, files>>
           ELSE /\ SaveAndAdvance(doc, None, log)
                /\ UNCHANGED dl_vars
    /\ UNCHANGED <<comprehensive, max_docs, term_idx, request, api_results, documents,
                   all_documents, unique_documents, success, exit_code, returned, first_seen>>
    /\ UNCHANGED nm_vars

\* download_pdf has returned: the rest of the loop body
process_save ==
    /\ pc = "download"
    /\ dl_pc = "done"
    /\ SaveAndAdvance(Work[i], dl_result, log)
    /\ dl_pc' = "idle" /\ pdf_url' = "" /\ max_retries' = 0 /\ attempt' = 0
    /\ dl_result' = None /\ dl_slept' = 0 /\ dl_log' = <<>>
    /\ UNCHANGED <<comprehensive, max_docs, term_idx, request, api_results, documents,
                   all_documents, unique_documents, success, exit_code, returned, first_seen>>
    /\ UNCHANGED nm_vars

\* Faulty variant: the run reports success whenever the loop has run.
run_return_always ==
    /\ pc = "loop"
    /\ i > Len(Work)
    /\ success' = (success_count >= 0)
    /\ pc' = "exit"
    /\ slept' = 0
    /\ UNCHANGED <<comprehensive, max_docs, term_idx, request, api_results, documents,
                   all_documents, unique_documents, i, success_count,
                   exit_code, files, log, returned, first_seen>>
    /\ UNCHANGED <<dl_vars, nm_vars>>

\* lines 331-340 (278-282): the loop is over
run_return ==
    /\ pc = "loop"
    /\ i > Len(Work)
    /\ success' = (success_count > 0)
    /\ pc' = "exit"
    /\ slept' = 0
    /\ UNCHANGED <<comprehensive, max_docs, term_idx, request, api_results, documents,
                   all_documents, unique_documents, i, success_count,
                   exit_code, files, log, returned, first_seen>>
    /\ UNCHANGED <<dl_vars, nm_vars>>

\* main: sys.exit(0 if success else 1)
main_exit ==
    /\ pc = "exit"
    /\ exit_code' = IF success THEN 0 ELSE 1
    /\ pc' = "done"
    /\ UNCHANGED <<comprehensive, max_docs, term_idx, request, api_results, documents,
                   all_documents, unique_documents, i, success_count, success,
                   files, slept, log, returned, first_seen>>
    /\ UNCHANGED <<dl_vars, nm_vars>>

Next ==
    \/ main_call
    \/ run_search
    \/ comp_search_term
    \/ comp_collect
    \/ process_begin
    \/ download_pdf_entry
    \/ download_pdf_attempt
    \/ download_pdf_exhausted
    \/ process_save
    \/ run_return
    \/ main_exit

Spec == Init /\ [][Next]_vars

----------------------------------------------------------------------------
(* download_pdf called on its own, for every URL and retry count           *)

InitPdf ==
    /\ main_idle /\ nm_idle
    /\ dl_pc = "entry"
    /\ pdf_url \in {"", PdfUrl}
    /\ max_retries \in 0..MaxRetriesBound
    /\ attempt = 0 /\ dl_result = None /\ dl_slept = 0 /\ dl_log = <<>>

NextPdf == download_pdf_entry \/ download_pdf_attempt \/ download_pdf_exhausted

SpecPdf == InitPdf /\ [][NextPdf]_vars

----------------------------------------------------------------------------
(* The file name derivation of save_document on its own, for many titles   *)

BaseLen == 4      \* longest pattern a title repeats
MaxRepeat == 26   \* most repetitions of the pattern

\* a letter, the underscore, two kinds of whitespace, the hyphen and a
\* character the first re.sub removes
TitleChars == {"a", "_", " ", "\t", "-", "!"}

RECURSIVE Repeat(_, _)
Repeat(base, n) == IF n = 0 THEN <<>> ELSE base \o Repeat(base, n - 1)

\* a title is a pattern repeated: not at all, once, twice, or often enough to
\* pass 50 characters after the clean-up
Patterns == UNION {[1..m -> TitleChars] : m \in 1..BaseLen}
RepeatCounts == {0, 1, 2, MaxRepeat - 1, MaxRepeat}

InitName ==
    /\ main_idle /\ dl_idle
    /\ nm_pc = "start"
    /\ \E base \in Patterns, n \in RepeatCounts, dated \in BOOLEAN :
         nm_doc = IF dated
                  THEN [title |-> Repeat(base, n), publication_date |-> Day]
                  ELSE IF n = 0 THEN [publication_date |-> Day]
                                ELSE [title |-> Repeat(base, n)]
    /\ filename = <<>>

\* save_document: lines 153-167
derive_filename ==
    /\ nm_pc = "start"
    /\ filename' = Filename(nm_doc)
    /\ nm_pc' = "done"
    /\ UNCHANGED nm_doc
    /\ UNCHANGED <<main_vars, dl_vars>>

NextName == derive_filename

SpecName == InitName /\ [][NextName]_vars

----------------------------------------------------------------------------
(* Properties of download_pdf, checked under SpecPdf                       *)

Last(seq) == seq[Len(seq)]
AllErrors == \A k \in 1..Len(dl_log) : dl_log[k] = "error"

\* C2 as stated: an attempt that parses the PDF but finds no text sleeps 2
\* seconds and retries like a failed attempt, so nothing is returned only after
\* max_retries attempts.
C2_NoTextRetries ==
    /\ (dl_pc = "done" /\ pdf_url # "" /\ dl_result = None) => attempt = max_retries
    /\ (dl_log # <<>> /\ Last(dl_log) = "no_text" /\ attempt < max_retries)
         => (dl_pc = "loop" /\ dl_slept = RetryDelay * Len(dl_log))

\* C2 amended: an attempt that parses the PDF but finds no text ends the call
\* at once with nothing, without sleeping and without another attempt; only
\* attempts that raise are followed by the 2-second sleep (those before the
\* last one) and a retry.  So nothing is returned either at the first attempt
\* without text or after max_retries attempts that all raised.
C2_NoTextReturnsAtOnce ==
    /\ \A k \in 1..Len(dl_log) : dl_log[k] # "error" => k = Len(dl_log)
    /\ (dl_log # <<>> /\ Last(dl_log) = "no_text")
         => /\ dl_pc = "done"
            /\ dl_result = None
            /\ dl_slept = RetryDelay * (Len(dl_log) - 1)
    /\ AllErrors => dl_slept = RetryDelay * Min(Len(dl_log), Max(max_retries - 1, 0))
    /\ (dl_pc = "done" /\ pdf_url # "" /\ dl_result = None)
         => \/ (dl_log # <<>> /\ Last(dl_log) = "no_text")
            \/ (AllErrors /\ attempt = max_retries)

\* C2 witness: after two failed attempts the third finds no text and the call
\* ends with attempts to spare.
C2_Witness ==
    /\ dl_pc = "done" /\ dl_result = None
    /\ dl_log = <<"error", "error", "no_text">>
    /\ max_retries > 3

\* C3: download_pdf makes at most max_retries attempts; when every attempt
\* raises it returns nothing after exactly max_retries attempts; an attempt
\* that yields text is the last one and its text is returned.
C3_RetryCeiling ==
    /\ attempt <= max_retries
    /\ Len(dl_log) = attempt
    /\ (dl_pc = "done" /\ pdf_url # "" /\ AllErrors)
         => (dl_result = None /\ attempt = max_retries)
    /\ \A k \in 1..Len(dl_log) :
         dl_log[k] = "text" => (k = Len(dl_log) /\ dl_pc = "done" /\ dl_result # None)

\* C3 witness: three attempts allowed, all three raised, nothing returned.
C3_Witness ==
    /\ dl_pc = "done" /\ dl_result = None
    /\ max_retries = DefaultMaxRetries
    /\ dl_log = <<"error", "error", "error">>

----------------------------------------------------------------------------
(* Properties of the runs, checked under Spec                              *)

Finished == pc \in {"exit", "done"}

\* positions in log of the save_document calls, and of those that returned True
Saves == {k \in 1..Len(log) : log[k].op = "save_document"}
SavesTrue == {k \in Saves : log[k].ret = "True"}
Downloads == {k \in 1..Len(log) : log[k].op = "download_pdf"}

\* C1: in both modes the run returns success iff some save_document call
\* returned True; main exits with 0 when the run returned success and with 1
\* otherwise; a run whose search yields no document to process reports failure
\* and has fetched no PDF and written no file.
C1_SuccessIffSaved ==
    /\ Finished => (success <=> SavesTrue # {})
    /\ pc = "done" => exit_code = (IF success THEN 0 ELSE 1)
    /\ pc # "done" => exit_code = -1
    /\ (Finished /\ Work = <<>>)
         => (~success /\ log = <<>> /\ DOMAIN files = {} /\ dl_pc = "idle")
    /\ (returned = {} /\ pc \notin {"main", "run", "comp_terms"}) => Work = <<>>

\* C1 witness: a comprehensive run has ended with exit code 0 although one of
\* its save_document calls returned False.
C1_Witness ==
    /\ pc = "done" /\ comprehensive /\ exit_code = 0
    /\ \E k \in Saves : log[k].ret = "False"

\* C4: in a comprehensive run no two collected documents share a document
\* number, each collected record is the first one returned with its number
\* (earliest term, then earliest position), and no number is extracted or
\* saved twice.
C4_OnePerIdentifier ==
    comprehensive =>
      /\ \A j, k \in 1..Len(all_documents) :
           j # k => all_documents[j].key # all_documents[k].key
      /\ \A k \in 1..Len(all_documents) :
           /\ all_documents[k].key = DocNumber(all_documents[k].value)
           /\ all_documents[k] \in first_seen
      /\ pc \notin {"main", "comp_terms"}
           => unique_documents = [k \in 1..Len(all_documents) |-> all_documents[k].value]
      /\ \A j, k \in 1..Len(log) :
           (j # k /\ log[j].op = log[k].op)
             => DocNumber(log[j].doc) # DocNumber(log[k].doc)
      /\ \A k \in 1..Len(log) :
           [key |-> DocNumber(log[k].doc), value |-> log[k].doc] \in first_seen

\* C4 witness: both records numbered 2024-00001 were returned, the second
\* record of Pool first, and that one alone was saved.
C4_Witness ==
    /\ pc = "done" /\ comprehensive
    /\ {1, 2} \subseteq returned
    /\ \E k \in Saves : log[k].doc = 2

\* C5 as stated: for every max_docs the command line accepts,
\* search_documents returns the qualifying records truncated to max_docs: never
\* more than max_docs records, the first max_docs qualifying records in API
\* order when that many qualify, all of them otherwise; and the run saves no
\* more than that.  A negative max_docs is read here as "no record", the most
\* lenient reading of the claim.
C5_TruncatedToMaxDocs ==
    (~comprehensive /\ pc \notin {"main", "run"}) =>
      LET qualifying == SelectSeq(api_results, LAMBDA d : passes[d])
          limit == Max(max_docs, 0)
      IN  /\ Len(documents) <= limit
          /\ documents = SubSeq(qualifying, 1, Min(limit, Len(qualifying)))
          /\ Cardinality(Saves) <= limit

\* the records of Pool with a PDF URL and a keyword in title or abstract
Qualified == {d \in DocIds : Truthy(Pool[d], "pdf_url") /\ MatchesKeyword(Pool[d])}

\* C6: every record given to save_document (and to download_pdf) has a
\* non-empty PDF URL and a keyword in its lowercased title and abstract; a
\* record without either is in no search result and in no file.
C6_OnlyQualifiedSaved ==
    /\ \A k \in 1..Len(log) : log[k].doc \in Qualified
    /\ returned \subseteq Qualified
    /\ \A f \in DOMAIN files : files[f].doc \in Qualified

\* C6 witness: the API returned a record that has a PDF URL but no keyword
\* ahead of a qualifying one, and the run saved only the qualifying one.
C6_Witness ==
    /\ pc = "done" /\ SavesTrue # {}
    /\ api_results = <<7, 1>>

\* C7: in a single-term run every document of the search result gets one
\* download_pdf call followed by one save_document call, in the order of the
\* result, whatever happened to the documents before it; a save_document call
\* whose write fails returns False and leaves no complete new file, one that
\* returns True has written the file; the success count is the number of
\* save_document calls that returned True.
C7_LoopInvariant ==
    ~comprehensive =>
      /\ success_count = Cardinality(SavesTrue)
      /\ Finished => Len(log) = 2 * Len(documents)
      /\ Len(log) <= 2 * Len(documents)
      /\ \A k \in 1..Len(log) :
           /\ log[k].doc = documents[(k + 1) \div 2]
           /\ log[k].op = (IF k % 2 = 1 THEN "download_pdf" ELSE "save_document")

C7_SaveStep ==
    (~comprehensive /\ Len(log') > Len(log) /\ Last(log').op = "save_document")
      => LET e == Last(log')
             f == filename_of[e.doc]
         IN  IF e.ret = "True"
             THEN /\ f \in DOMAIN files'
                  /\ files'[f].complete /\ files'[f].doc = e.doc
                  /\ (files'[f].text # None) <=> (e.content = "text")
                  /\ pc' = "loop" /\ i' = i + 1
             ELSE /\ \/ files' = files
                     \/ (f \in DOMAIN files' /\ ~files'[f].complete)
                  /\ pc' = "loop" /\ i' = i + 1

\* C7: the loop invariant holds in every state and every save_document step
\* of a single-term run behaves as described, whatever came before it.
C7_FailuresDoNotAbort == []C7_LoopInvariant /\ [][C7_SaveStep]_vars

\* C7 witness: a single-term run of two documents has ended; the first
\* document's extraction gave nothing and its write failed, the second was
\* saved.
C7_Witness ==
    /\ pc = "done" /\ ~comprehensive /\ Len(documents) = 2
    /\ Len(log) = 4
    /\ log[2].content = "none" /\ log[2].ret = "False"
    /\ log[4].ret = "True"

\* the save_document calls whose documents have the same file name
Collisions(among) ==
    {<<j, k>> \in among \X among :
       j < k /\ filename_of[log[j].doc] = filename_of[log[k].doc]}

WrittenNames == {filename_of[log[k].doc] : k \in SavesTrue}

----------------------------------------------------------------------------
(* Property of the file name, checked under SpecName                       *)

\* the part of the file name between "<date>-" and ".txt"
NamePart == SubSeq(filename, Len(DocDate(nm_doc)) + 2, Len(filename) - Len(TxtSuffix))

\* C8: the file name is the date, a hyphen, the safe title and ".txt"; the
\* safe title has at most 50 characters, all of them word characters or
\* hyphens, with no two hyphens in a row; so the name is at most
\* len(date) + 1 + 50 + 4 characters long.
C8_SafeFilename ==
    nm_pc = "done" =>
      /\ filename = DocDate(nm_doc) \o <<"-">> \o NamePart \o TxtSuffix
      /\ Len(NamePart) <= TitleCap
      /\ \A k \in 1..Len(NamePart) : NamePart[k] \in WordChars \cup {"-"}
      /\ \A k \in 1..(Len(NamePart) - 1) : ~(NamePart[k] = "-" /\ NamePart[k + 1] = "-")
      /\ Len(filename) <= Len(DocDate(nm_doc)) + 1 + TitleCap + Len(TxtSuffix)
      /\ \* the word characters of the title survive in order, up to the cut
         LET word(t) == SelectSeq(t, LAMBDA c : c \in WordChars)
         IN  /\ Len(word(NamePart)) <= Len(word(DocTitle(nm_doc)))
             /\ word(NamePart) = SubSeq(word(DocTitle(nm_doc)), 1, Len(word(NamePart)))

\* C8 witness: a title of more than 50 characters with punctuation, whitespace
\* and hyphens gave a safe title of exactly 50 characters.
C8_Witness ==
    /\ nm_pc = "done"
    /\ Len(DocTitle(nm_doc)) > TitleCap
    /\ Len(NamePart) = TitleCap
    /\ \E k \in 1..Len(nm_doc.title) : nm_doc.title[k] = "!"
    /\ \E k \in 1..(Len(nm_doc.title) - 1) :
         nm_doc.title[k] = " " /\ nm_doc.title[k + 1] = "-"

============================================================================
